---- MODULE Spec2Model ----
(***************************************************************************)
(* mdslides (src/main.rs): a markdown file is parsed into a Presentation   *)
(* (Presentation::read), each slide's content is formatted for display     *)
(* (Slide::formatted_content), and main runs a draw/poll loop over a       *)
(* terminal session in alternate-screen and raw mode.                      *)
(*                                                                         *)
(* Strings are sequences of one-character strings, so that starts_with,    *)
(* replace, trim, lines, join and the three regular expressions are        *)
(* computed character by character.                                        *)
(***************************************************************************)
EXTENDS Integers, Sequences, FiniteSets, TLC

VARIABLES
    pc,          \* position of main, or of the function under study
    readable,    \* whether fs::read_to_string succeeds on the given path
    src,         \* the file's text, as the lines it was written from
    p,           \* main's Presentation (the result of Presentation::read)
    altScreen,   \* the terminal is in the alternate screen
    rawMode,     \* the terminal is in raw mode
    slide,       \* main's current slide index
    ev,          \* the event last returned by event::read
    frame,       \* what the last completed draw put on the screen
    content,     \* a Slide's content (input of formatted_content)
    normalized,  \* the text formatted_content splits into lines
    out,         \* the lines formatted_content returned
    out2         \* formatted_content of the texts of out

vars == <<pc, readable, src, p, altScreen, rawMode, slide, ev, frame,
          content, normalized, out, out2>>

mainVars == <<readable, altScreen, rawMode, slide, ev, frame>>
fmtVars == <<content, normalized, out, out2>>

----------------------------------------------------------------------------
(* Bounds of the model.                                                    *)

\* lines of a document given to Presentation::read
MaxDocLines == 5
\* lines of a slide's content given to formatted_content
MaxContentLines == 6
\* lines of a slide's content, when the lines are of every style
MaxStyledLines == 5
\* lines of a document given to main
MaxMainLines == 3

----------------------------------------------------------------------------
(* Strings.                                                                *)

NL == "\n"
\* the backtick character, which a TLA+ string cannot hold
Backtick == "'"
EmptyStr == <<>>

\* char::is_whitespace, over the characters the model uses
IsWhitespace(c) == c \in {" ", "\n", "\t", "\r"}

\* str::starts_with
StartsWith(s, pre) ==
    /\ Len(s) >= Len(pre)
    /\ SubSeq(s, 1, Len(pre)) = pre

\* str::replace(from, to): every non-overlapping match, left to right
RECURSIVE Replace(_, _, _)
Replace(s, from, to) ==
    IF Len(s) < Len(from) THEN s
    ELSE IF StartsWith(s, from)
         THEN to \o Replace(SubSeq(s, Len(from) + 1, Len(s)), from, to)
         ELSE <<Head(s)>> \o Replace(Tail(s), from, to)

\* str::trim_start
RECURSIVE TrimStart(_)
TrimStart(s) ==
    IF s # <<>> /\ IsWhitespace(Head(s)) THEN TrimStart(Tail(s)) ELSE s

\* str::trim_end
RECURSIVE TrimEnd(_)
TrimEnd(s) ==
    IF s # <<>> /\ IsWhitespace(s[Len(s)])
    THEN TrimEnd(SubSeq(s, 1, Len(s) - 1))
    ELSE s

\* str::trim
Trim(s) == TrimEnd(TrimStart(s))

\* index of the first line feed of s, 0 when there is none
FirstNewline(s) ==
    IF \E i \in 1..Len(s) : s[i] = NL
    THEN CHOOSE i \in 1..Len(s) : s[i] = NL /\ \A j \in 1..(i - 1) : s[j] # NL
    ELSE 0

\* str::lines: split at line feeds; a final line feed ends the last line
\* and opens no further, empty one
RECURSIVE Lines(_)
Lines(s) ==
    IF s = <<>> THEN <<>>
    ELSE LET i == FirstNewline(s)
         IN IF i = 0 THEN <<s>>
            ELSE <<SubSeq(s, 1, i - 1)>> \o Lines(SubSeq(s, i + 1, Len(s)))

\* [String]::join(sep)
RECURSIVE Join(_, _)
Join(ls, sep) ==
    IF ls = <<>> THEN <<>>
    ELSE IF Len(ls) = 1 THEN ls[1]
    ELSE ls[1] \o sep \o Join(Tail(ls), sep)

\* all sequences over S of length at most n
SeqsUpTo(S, n) == UNION {[1..k -> S] : k \in 0..n}

----------------------------------------------------------------------------
(* Presentation::read                                                      *)

Slide(t, c) == [title |-> t, content |-> c]

Presentation(t, a, d, s) == [title |-> t, author |-> a, date |-> d, slides |-> s]

\* the locals of Presentation::read before its loop
ReadLocals ==
    [title |-> EmptyStr, author |-> EmptyStr, date |-> EmptyStr, slides |-> <<>>,
     slide_title |-> EmptyStr, slide_content |-> <<>>]

\* a first header pushes a slide as every later one does
FirstHeader_Never(st) == FALSE

\* the test that takes a line as the first-slide header: the title of the
\* slide in progress is still empty
FirstHeader(st) == st.slide_title = EmptyStr

\* the content of the slide in progress is not cleared
StartNextSlide_KeepContent(st, text) ==
    [st EXCEPT
        !.slides = Append(@, Slide(st.slide_title, st.slide_content)),
        !.slide_title = text]

\* a later header: push the slide in progress and start the next one
StartNextSlide(st, text) ==
    [st EXCEPT
        !.slides = Append(@, Slide(st.slide_title, st.slide_content)),
        !.slide_title = text,
        !.slide_content = <<>>]

\* the slide in progress is pushed only when it has a title
PushLast_IfTitled(st) ==
    IF st.slide_title = EmptyStr THEN st.slides
    ELSE Append(st.slides, Slide(st.slide_title, st.slide_content))

\* after the loop: push the slide in progress
PushLast(st) == Append(st.slides, Slide(st.slide_title, st.slide_content))

\* the first header clears the content gathered before it
StartFirstSlide_Clear(st, text) ==
    [st EXCEPT !.slide_title = text, !.slide_content = <<>>]

\* the first header: it closes no slide and gives the slide in progress
\* its title
StartFirstSlide(st, text) == [st EXCEPT !.slide_title = text]

\* the first three lines are metadata lines of the first slot tested
IsMetaLine_FirstThree(line, slot, text) == line <= 2 /\ StartsWith(text, <<"%">>)

\* a line starting with "%" is metadata wherever it stands
IsMetaLine_AnyLine(line, slot, text) == StartsWith(text, <<"%">>)

\* the test that takes line `line` as a metadata line of slot `slot`
IsMetaLine(line, slot, text) == line = slot /\ StartsWith(text, <<"%">>)

\* what a metadata line gives its slot
MetaValue(text) == Replace(text, <<"%", " ">>, EmptyStr)

\* one pass of the loop body, for line number `line` (from 0) with text `text`
ReadLine(st, line, text) ==
    IF IsMetaLine(line, 0, text) THEN [st EXCEPT !.title = MetaValue(text)]
    ELSE IF IsMetaLine(line, 1, text) THEN [st EXCEPT !.author = MetaValue(text)]
    ELSE IF IsMetaLine(line, 2, text) THEN [st EXCEPT !.date = MetaValue(text)]
    ELSE IF StartsWith(text, <<"#", " ">>)
         THEN IF FirstHeader(st)
              THEN StartFirstSlide(st, text)
              ELSE StartNextSlide(st, text)
    ELSE [st EXCEPT !.slide_content = Append(@, text)]

\* the loop over file_content.lines().enumerate(), from line `line` on
RECURSIVE ReadLoop(_, _, _)
ReadLoop(st, ls, line) ==
    IF line >= Len(ls) THEN st
    ELSE ReadLoop(ReadLine(st, line, ls[line + 1]), ls, line + 1)

\* Presentation::read on a file that could be read
Presentation_read(file_content) ==
    LET st == ReadLoop(ReadLocals, Lines(file_content), 0)
    IN Presentation(st.title, st.author, st.date, PushLast(st))

\* the text of a file written as the lines ls
FileContent(ls) == Join(ls, <<NL>>)

\* main has no Presentation before Presentation::read has returned one
NoPresentation == Presentation(EmptyStr, EmptyStr, EmptyStr, <<>>)

----------------------------------------------------------------------------
(* Slide::formatted_content                                                *)

\* Regex::new("^\n*") replace(.., ""): the line feeds the text starts with
RECURSIVE StripLeadingNewlines(_)
StripLeadingNewlines(s) ==
    IF s # <<>> /\ Head(s) = NL THEN StripLeadingNewlines(Tail(s)) ELSE s

\* Regex::new("\n*$") replace(.., ""): the leftmost match is the whole run
\* of line feeds the text ends with
RECURSIVE StripTrailingNewlines(_)
StripTrailingNewlines(s) ==
    IF s # <<>> /\ s[Len(s)] = NL
    THEN StripTrailingNewlines(SubSeq(s, 1, Len(s) - 1))
    ELSE s

\* where the leftmost match of "\n\n+" starts in s, 0 when there is none
FirstRunStart(s) ==
    IF \E i \in 1..(Len(s) - 1) : s[i] = NL /\ s[i + 1] = NL
    THEN CHOOSE i \in 1..(Len(s) - 1) :
            /\ s[i] = NL /\ s[i + 1] = NL
            /\ \A j \in 1..(i - 1) : ~(s[j] = NL /\ s[j + 1] = NL)
    ELSE 0

\* where the run of line feeds that starts at i ends
RunEnd(s, i) ==
    CHOOSE j \in i..Len(s) :
        /\ \A k \in i..j : s[k] = NL
        /\ (j = Len(s) \/ s[j + 1] # NL)

\* the pattern is "\n\n" and the replacement "\n": the leftmost pair of
\* line feeds becomes one
CollapseNewlines_Pair(s) ==
    LET i == FirstRunStart(s)
    IN IF i = 0 THEN s
       ELSE SubSeq(s, 1, i - 1) \o <<NL>> \o SubSeq(s, i + 2, Len(s))

\* Regex::new("\n\n+") replace(.., "\n\n"): Regex::replace rewrites the
\* leftmost match only
CollapseNewlines(s) ==
    LET i == FirstRunStart(s)
    IN IF i = 0 THEN s
       ELSE SubSeq(s, 1, i - 1) \o <<NL, NL>> \o SubSeq(s, RunEnd(s, i) + 1, Len(s))

\* the text formatted_content splits into lines: result.trim()
Normalize(c) ==
    Trim(CollapseNewlines(StripTrailingNewlines(StripLeadingNewlines(Join(c, <<NL>>)))))

StyledLine(style, text) == [style |-> style, text |-> text]

\* line.starts_with("##")
IsHeading(line) == StartsWith(line, <<"#", "#">>)

\* line.trim().starts_with("* ")
IsBullet(line) == StartsWith(Trim(line), <<"*", " ">>)

\* line.trim_end().starts_with of three backticks
IsFence(line) == StartsWith(TrimEnd(line), <<Backtick, Backtick, Backtick>>)

\* the two spans of a bullet line
BulletLine(line) ==
    StyledLine("Bullet", <<"*", " ">> \o Replace(Trim(line), <<"*", " ">>, EmptyStr))

\* format!(" {} ", line)
CodeLine(line) == StyledLine("CodeLine", <<" ">> \o line \o <<" ">>)

\* the flag is left as it was
ToggleSource_Stuck(source) == source

\* the flag `source` after a fence line
ToggleSource(source) == ~source

\* what a fence line gives the output
FenceOutput(line) == <<>>

\* the closure given to map, with filter(Option::is_some) and unwrap applied:
\* the lines it adds to the output and the flag `source` it leaves
MapLine(line, source) ==
    IF IsHeading(line)
    THEN [lines |-> <<StyledLine("Heading", line)>>, source |-> source]
    ELSE IF IsBullet(line)
    THEN [lines |-> <<BulletLine(line)>>, source |-> source]
    ELSE IF IsFence(line)
    THEN [lines |-> FenceOutput(line), source |-> ToggleSource(source)]
    ELSE IF source
    THEN [lines |-> <<CodeLine(line)>>, source |-> source]
    ELSE [lines |-> <<StyledLine("Plain", line)>>, source |-> source]

\* the iterator chain over result.trim().lines(), `source` carried along
RECURSIVE MapLines(_, _)
MapLines(ls, source) ==
    IF ls = <<>> THEN <<>>
    ELSE LET r == MapLine(Head(ls), source)
         IN r.lines \o MapLines(Tail(ls), r.source)

\* Slide::formatted_content, `source` false at the start
formatted_content(c) == MapLines(Lines(Normalize(c)), FALSE)

\* the texts of the lines of an output, as content
Texts(ls) == [i \in 1..Len(ls) |-> ls[i].text]

----------------------------------------------------------------------------
(* main                                                                    *)

\* the events event::read can return: key events by kind and code, and the
\* events that are no key events (resize, mouse, focus, paste)
KeyKinds == {"Press", "Release", "Repeat"}
KeyCodes == {"Esc", "q", "Left", "Right", "Other"}
KeyEvents == [type : {"Key"}, kind : KeyKinds, code : KeyCodes]
NonKeyEvent == [type |-> "Other", kind |-> "None", code |-> "None"]
Events == KeyEvents \cup {NonKeyEvent}
NoEvent == [type |-> "None", kind |-> "None", code |-> "None"]

NoFrame == [view |-> "none"]

\* key.kind is not tested: a release or a repeat counts as a press
IsPress_AnyKind(e, code) == e.type = "Key" /\ e.code = code

\* key.kind == KeyEventKind::Press && key.code == code
IsPress(e, code) == e.type = "Key" /\ e.kind = "Press" /\ e.code = code

\* the second quit binding is missing
IsQuit_EscOnly(e) == IsPress(e, "Esc")

\* the quit test of the loop
IsQuit(e) == IsPress(e, "Esc") \/ IsPress(e, "q")

\* a left arrow goes back to the title view
StepBack_Home(s) == 0

\* slide.checked_sub(1).unwrap_or_else(|| 0)
StepBack(s) == IF s >= 1 THEN s - 1 ELSE 0

\* if slide < p.slides.len() is missing
StepForward_Unchecked(s, len) == s + 1

\* if slide < p.slides.len() { slide += 1 }
StepForward(s, len) == IF s < len THEN s + 1 ELSE s

\* figlet.convert(&p.title): FIGfont::convert returns None for the empty
\* message, and main unwraps it
FigletConverts(title) == title # EmptyStr

\* the closure given to terminal.draw aborts
DrawAborts == slide = 0 /\ ~FigletConverts(p.title)

\* the counter shows the index and the number of slides as they are
Counter_ZeroBased(s, pr) == <<s, Len(pr.slides)>>

\* the footer's counter: format!("[{}/{}]", slide + 1, p.slides.len() + 1)
Counter(s, pr) == <<s + 1, Len(pr.slides) + 1>>

\* the footer's left half
FooterText(s, pr) ==
    IF s = 0 THEN pr.title
    ELSE pr.title \o <<" ", "-", "-", " ">>
         \o Replace(pr.slides[s].title, <<"#", " ">>, EmptyStr)

\* what the closure given to terminal.draw renders for index s
View(s, pr) ==
    IF s = 0
    THEN [view |-> "title", title |-> pr.title, author |-> pr.author,
          date |-> pr.date, footer |-> FooterText(s, pr), counter |-> Counter(s, pr)]
    ELSE [view |-> "slide", title |-> pr.slides[s].title,
          lines |-> formatted_content(pr.slides[s].content),
          footer |-> FooterText(s, pr), counter |-> Counter(s, pr)]

\* the places of main where a terminal primitive is called with `?`
Fallible ==
    {"enter_alt", "enable_raw", "new_terminal", "clear", "draw", "poll", "read",
     "leave_alt", "disable_raw"}

\* main is over: it returned Ok, returned an Err, or panicked
Terminated == pc \in {"done", "failed", "panicked"}

\* Presentation::read(..).unwrap() on a file that was read
ReadOk ==
    /\ pc = "start" /\ readable
    /\ p' = Presentation_read(FileContent(src))
    /\ pc' = "enter_alt"
    /\ UNCHANGED <<src, mainVars, fmtVars>>

\* the read error is dropped and main goes on with no presentation
AfterReadErr_GoOn == "enter_alt"

\* where main goes when Presentation::read returns Err: unwrap panics
AfterReadErr == "panicked"

\* Presentation::read(..).unwrap() on a file that could not be read
ReadErr ==
    /\ pc = "start" /\ ~readable
    /\ pc' = AfterReadErr
    /\ UNCHANGED <<src, p, mainVars, fmtVars>>

\* stdout().execute(EnterAlternateScreen)? returns Ok
EnterAlternateScreen ==
    /\ pc = "enter_alt"
    /\ altScreen' = TRUE
    /\ pc' = "enable_raw"
    /\ UNCHANGED <<src, p, readable, rawMode, slide, ev, frame, fmtVars>>

\* enable_raw_mode()? returns Ok
EnableRawMode ==
    /\ pc = "enable_raw"
    /\ rawMode' = TRUE
    /\ pc' = "new_terminal"
    /\ UNCHANGED <<src, p, readable, altScreen, slide, ev, frame, fmtVars>>

\* Terminal::new(..)? returns Ok
TerminalNew ==
    /\ pc = "new_terminal"
    /\ pc' = "clear"
    /\ UNCHANGED <<src, p, mainVars, fmtVars>>

\* terminal.clear()? returns Ok; let mut slide = 0
TerminalClear ==
    /\ pc = "clear"
    /\ slide' = 0
    /\ pc' = "draw"
    /\ UNCHANGED <<src, p, readable, altScreen, rawMode, ev, frame, fmtVars>>

\* terminal.draw(..)? returns Ok
Draw ==
    /\ pc = "draw" /\ ~DrawAborts
    /\ frame' = View(slide, p)
    /\ pc' = "poll"
    /\ UNCHANGED <<src, p, readable, altScreen, rawMode, slide, ev, fmtVars>>

\* the closure given to terminal.draw panics
DrawPanic ==
    /\ pc = "draw" /\ DrawAborts
    /\ pc' = "panicked"
    /\ UNCHANGED <<src, p, mainVars, fmtVars>>

\* event::poll(16 ms)? returns Ok(false): no event within the wait
PollTimeout ==
    /\ pc = "poll"
    /\ pc' = "draw"
    /\ UNCHANGED <<src, p, mainVars, fmtVars>>

\* event::poll(16 ms)? returns Ok(true)
PollReady ==
    /\ pc = "poll"
    /\ pc' = "read"
    /\ UNCHANGED <<src, p, mainVars, fmtVars>>

\* event::read()? returns Ok(e)
ReadEvent ==
    /\ pc = "read"
    /\ \E e \in Events : ev' = e
    /\ pc' = "dispatch"
    /\ UNCHANGED <<src, p, readable, altScreen, rawMode, slide, frame, fmtVars>>

\* the body of `if let event::Event::Key(key)`, and the loop's next turn
Dispatch ==
    /\ pc = "dispatch"
    /\ IF ev.type = "Key" /\ IsQuit(ev)
       THEN pc' = "leave_alt" /\ slide' = slide
       ELSE /\ pc' = "draw"
            /\ slide' = IF IsPress(ev, "Left") THEN StepBack(slide)
                        ELSE IF IsPress(ev, "Right")
                             THEN StepForward(slide, Len(p.slides))
                             ELSE slide
    /\ UNCHANGED <<src, p, readable, altScreen, rawMode, ev, frame, fmtVars>>

\* stdout().execute(LeaveAlternateScreen)? returns Ok
LeaveAlternateScreen ==
    /\ pc = "leave_alt"
    /\ altScreen' = FALSE
    /\ pc' = "disable_raw"
    /\ UNCHANGED <<src, p, readable, rawMode, slide, ev, frame, fmtVars>>

\* disable_raw_mode()? returns Ok; main returns Ok(())
DisableRawMode ==
    /\ pc = "disable_raw"
    /\ rawMode' = FALSE
    /\ pc' = "done"
    /\ UNCHANGED <<src, p, readable, altScreen, slide, ev, frame, fmtVars>>

\* a terminal primitive returns Err and `?` returns it from main at once
TerminalError ==
    /\ pc \in Fallible
    /\ pc' = "failed"
    /\ UNCHANGED <<src, p, mainVars, fmtVars>>

\* the lines of the documents given to main
MainLines == {<<"%", " ", "T">>, <<"#", " ", "H">>, <<"a">>}

Init ==
    /\ pc = "start"
    /\ readable \in BOOLEAN
    /\ src \in SeqsUpTo(MainLines, MaxMainLines)
    /\ p = NoPresentation
    /\ altScreen = FALSE
    /\ rawMode = FALSE
    /\ slide = 0
    /\ ev = NoEvent
    /\ frame = NoFrame
    /\ content = <<>>
    /\ normalized = <<>>
    /\ out = <<>>
    /\ out2 = <<>>

Next ==
    \/ ReadOk
    \/ ReadErr
    \/ EnterAlternateScreen
    \/ EnableRawMode
    \/ TerminalNew
    \/ TerminalClear
    \/ Draw
    \/ DrawPanic
    \/ PollTimeout
    \/ PollReady
    \/ ReadEvent
    \/ Dispatch
    \/ LeaveAlternateScreen
    \/ DisableRawMode
    \/ TerminalError

Spec == Init /\ [][Next]_vars

\* a session in which no terminal primitive returns Err
NoErrorNext ==
    \/ ReadOk
    \/ ReadErr
    \/ EnterAlternateScreen
    \/ EnableRawMode
    \/ TerminalNew
    \/ TerminalClear
    \/ Draw
    \/ DrawPanic
    \/ PollTimeout
    \/ PollReady
    \/ ReadEvent
    \/ Dispatch
    \/ LeaveAlternateScreen
    \/ DisableRawMode

\* main is the one thread of the process and every call of the loop
\* returns (event::poll within its 16 ms): main takes its next step as
\* long as it has one
SpecNoError == Init /\ [][NoErrorNext]_vars /\ WF_vars(NoErrorNext)

----------------------------------------------------------------------------
(* Presentation::read alone, over every document of the bound.             *)

\* the lines of the documents given to Presentation::read
DocLines ==
    {<<"%", " ", "T">>, <<"%", " ", "a", "%", " ", "b">>, <<"#", " ", "H">>,
     <<"#", " ", "G">>, <<"a">>, <<>>, <<"%", "x">>}

InitRead ==
    /\ pc = "read_input"
    /\ readable = TRUE
    /\ src \in SeqsUpTo(DocLines, MaxDocLines)
    /\ p = NoPresentation
    /\ altScreen = FALSE
    /\ rawMode = FALSE
    /\ slide = 0
    /\ ev = NoEvent
    /\ frame = NoFrame
    /\ content = <<>>
    /\ normalized = <<>>
    /\ out = <<>>
    /\ out2 = <<>>

ApplyRead ==
    /\ pc = "read_input"
    /\ p' = Presentation_read(FileContent(src))
    /\ pc' = "read_done"
    /\ UNCHANGED <<src, mainVars, fmtVars>>

NextRead == ApplyRead

SpecRead == InitRead /\ [][NextRead]_vars

----------------------------------------------------------------------------
(* Slide::formatted_content alone, over every content of the bound, and    *)
(* applied again to the texts of its own output.                           *)

\* the lines of the contents given to formatted_content are lines
\* Presentation::read can put in a Slide's content (no "# " header).
\* The longer contents, for the blank-line runs: blank, text, white space,
\* a fence and an indented fence
BlankRunLines ==
    {<<>>, <<"a">>, <<" ">>, <<Backtick, Backtick, Backtick>>,
     <<" ", Backtick, Backtick, Backtick>>}

\* The shorter contents, for the styles: blank, text, a fence, a bullet, an
\* indented bullet and a heading
StyledLines ==
    {<<>>, <<"a">>, <<Backtick, Backtick, Backtick>>, <<"*", " ", "a">>,
     <<" ", "*", " ", "a">>, <<"#", "#">>}

Contents ==
    SeqsUpTo(BlankRunLines, MaxContentLines) \cup SeqsUpTo(StyledLines, MaxStyledLines)

InitFmt ==
    /\ pc = "fmt_input"
    /\ readable = TRUE
    /\ src = <<>>
    /\ p = NoPresentation
    /\ altScreen = FALSE
    /\ rawMode = FALSE
    /\ slide = 0
    /\ ev = NoEvent
    /\ frame = NoFrame
    /\ content \in Contents
    /\ normalized = <<>>
    /\ out = <<>>
    /\ out2 = <<>>

Format ==
    /\ pc = "fmt_input"
    /\ normalized' = Normalize(content)
    /\ out' = formatted_content(content)
    /\ pc' = "fmt_done"
    /\ UNCHANGED <<src, p, mainVars, content, out2>>

Reformat ==
    /\ pc = "fmt_done"
    /\ out2' = formatted_content(Texts(out))
    /\ pc' = "fmt_again"
    /\ UNCHANGED <<src, p, mainVars, content, normalized, out>>

NextFmt == Format \/ Reformat

SpecFmt == InitFmt /\ [][NextFmt]_vars

----------------------------------------------------------------------------
(* What the claims say of a document, in the claims' own terms.            *)

\* the lines of the document Presentation::read was given
DocumentLines == Lines(FileContent(src))

\* a line starting with "# "
IsHeaderLine(l) == StartsWith(l, <<"#", " ">>)

\* the positions (from 1) of the header lines of ls
HeaderPositions(ls) == {i \in 1..Len(ls) : IsHeaderLine(ls[i])}

\* the positions (from 1) of the lines of ls consumed as metadata: one of
\* the first three lines, starting with "%"
MetaPositions(ls) == {i \in 1..Len(ls) : i <= 3 /\ StartsWith(ls[i], <<"%">>)}

\* the position of the n-th header line of ls
NthHeader(ls, n) ==
    CHOOSE h \in HeaderPositions(ls) :
        Cardinality({k \in HeaderPositions(ls) : k < h}) = n - 1

\* the positions strictly between the n-th header line and the next one,
\* or the end of the document
Between(ls, n) ==
    LET H == HeaderPositions(ls)
        last == IF n < Cardinality(H) THEN NthHeader(ls, n + 1) ELSE Len(ls) + 1
    IN {i \in 1..Len(ls) : NthHeader(ls, n) < i /\ i < last}

\* the lines of ls at the positions S, in source order
LinesAt(ls, S) ==
    LET F[i \in 0..Len(ls)] ==
            IF i = 0 THEN <<>>
            ELSE IF i \in S THEN Append(F[i - 1], ls[i]) ELSE F[i - 1]
    IN F[Len(ls)]

\* the contents of the slides of pr, one after the other
RECURSIVE AllContent(_)
AllContent(ss) ==
    IF ss = <<>> THEN <<>> ELSE Head(ss).content \o AllContent(Tail(ss))

\* the lines of ls that start with "%", in order
PercentLines(ls) == SelectSeq(ls, LAMBDA l : StartsWith(l, <<"%">>))

Parsed == pc = "read_done"

\* C3 as stated: with at least one header line, each slide's content is the
\* lines strictly between its header line and the next header line (or the
\* end of the document), so that the lines before the first header line are
\* in no slide.
C3_ContentStrictlyBetween ==
    LET ls == DocumentLines
    IN (Parsed /\ HeaderPositions(ls) # {}) =>
          \A n \in 1..Len(p.slides) :
              n <= Cardinality(HeaderPositions(ls)) =>
                  p.slides[n].content = LinesAt(ls, Between(ls, n))

\* C3 as amended: with at least one header line, each slide's content is the
\* lines not consumed as metadata that lie strictly between its header line
\* and the next header line (or the end of the document), in source order;
\* the first slide's content starts, before those, with the lines not
\* consumed as metadata that precede the first header line.
C3_ContentBetweenAndBefore ==
    LET ls == DocumentLines
        H == HeaderPositions(ls)
        M == MetaPositions(ls)
    IN (Parsed /\ H # {}) =>
          /\ Len(p.slides) = Cardinality(H)
          /\ \A n \in 1..Len(p.slides) :
                p.slides[n].content =
                    LinesAt(ls, ((IF n = 1 THEN 1..(NthHeader(ls, 1) - 1) ELSE {})
                                 \cup Between(ls, n)) \ M)

\* a document with lines before its first header line, a metadata line after
\* it and a second slide has been read
C3_Witness ==
    LET ls == DocumentLines
    IN /\ Parsed
       /\ Cardinality(HeaderPositions(ls)) >= 2
       /\ NthHeader(ls, 1) = 2
       /\ 1 \notin MetaPositions(ls)
       /\ 3 \in MetaPositions(ls)
       /\ p.slides[2].content # <<>>

\* C4: with at least one header line, there are as many slides as header
\* lines, and the i-th slide's title is the i-th header line, marker included.
C4_SlidePerHeader ==
    LET ls == DocumentLines
        H == HeaderPositions(ls)
    IN (Parsed /\ H # {}) =>
          /\ Len(p.slides) = Cardinality(H)
          /\ \A n \in 1..Cardinality(H) : p.slides[n].title = ls[NthHeader(ls, n)]

\* a document with three header lines, the first not on the first line,
\* has been read
C4_Witness ==
    /\ Parsed
    /\ Cardinality(HeaderPositions(DocumentLines)) = 3
    /\ 1 \notin HeaderPositions(DocumentLines)
    /\ p.slides[1].title # p.slides[2].title

\* C5: without a header line (the empty document included) there is exactly
\* one slide, its title is empty and its content is every line not consumed
\* as metadata, in source order.
C5_NoHeaderOneSlide ==
    LET ls == DocumentLines
    IN (Parsed /\ HeaderPositions(ls) = {}) =>
          /\ Len(p.slides) = 1
          /\ p.slides[1].title = EmptyStr
          /\ p.slides[1].content = LinesAt(ls, (1..Len(ls)) \ MetaPositions(ls))

\* a document without header lines, with a metadata line and with content,
\* has been read
C5_Witness ==
    /\ Parsed
    /\ HeaderPositions(DocumentLines) = {}
    /\ MetaPositions(DocumentLines) # {}
    /\ Len(p.slides) = 1
    /\ Len(p.slides[1].content) >= 2

\* the metadata slot that line number k (from 1) fills
SlotOf(ls, k) ==
    IF k <= Len(ls) /\ StartsWith(ls[k], <<"%">>) THEN MetaValue(ls[k]) ELSE EmptyStr

\* C6: title, author and date come from lines 0, 1 and 2 and from nowhere
\* else; a slot whose line does not start with "%" is empty; the lines
\* starting with "%" that are kept as slide content are exactly those at
\* position 3 or later.
C6_MetadataPositional ==
    LET ls == DocumentLines
    IN Parsed =>
          /\ p.title = SlotOf(ls, 1)
          /\ p.author = SlotOf(ls, 2)
          /\ p.date = SlotOf(ls, 3)
          /\ PercentLines(AllContent(p.slides)) =
                 PercentLines(LinesAt(ls, 4..Len(ls)))

\* a document whose line 0 is no metadata line, whose line 1 is one and
\* which has a line starting with "%" at position 3 or later has been read
C6_Witness ==
    LET ls == DocumentLines
    IN /\ Parsed
       /\ Len(ls) >= 4
       /\ ~StartsWith(ls[1], <<"%">>)
       /\ StartsWith(ls[2], <<"%">>)
       /\ p.title = EmptyStr
       /\ p.author # EmptyStr
       /\ PercentLines(AllContent(p.slides)) # <<>>

----------------------------------------------------------------------------
(* What the claims say of main.                                            *)

\* C1 as stated: however main stops, the terminal is neither in the
\* alternate screen nor in raw mode once main is over.
C1_TerminalRestored == Terminated => (~altScreen /\ ~rawMode)

\* C2: the slide index stays within [0, slide_count]; a left-arrow press at
\* index 0 leaves it at 0 and a right-arrow press at index slide_count
\* leaves it at slide_count.
C2_IndexInRange ==
    /\ [](slide \in 0..Len(p.slides))
    /\ [][(pc = "dispatch" /\ IsPress(ev, "Left") /\ slide = 0) => slide' = 0]_vars
    /\ [][(pc = "dispatch" /\ IsPress(ev, "Right") /\ slide = Len(p.slides))
             => slide' = Len(p.slides)]_vars

\* the last slide of a presentation of two slides was on the screen when a
\* right-arrow press was handled, and the index is still that slide's
C2_Witness ==
    /\ pc = "draw"
    /\ Len(p.slides) = 2
    /\ frame # NoFrame
    /\ frame.counter = <<3, 3>>
    /\ IsPress(ev, "Right")
    /\ slide = 2

\* C9: when the file cannot be read main panics at once, and the terminal
\* is never put in the alternate screen or in raw mode.
C9_NoTerminalAfterReadError ==
    ~readable => (pc \in {"start", "panicked"} /\ ~altScreen /\ ~rawMode)

\* main has panicked on a file that could not be read
C9_Witness == ~readable /\ pc = "panicked" /\ p = NoPresentation

----------------------------------------------------------------------------
(* What the claims say of Slide::formatted_content.                        *)

Formatted == pc \in {"fmt_done", "fmt_again"}
Reformatted == pc = "fmt_again"

\* s holds three line feeds in a row: two blank lines in a row
HasTripleNewline(s) ==
    \E i \in 1..(Len(s) - 2) : s[i] = NL /\ s[i + 1] = NL /\ s[i + 2] = NL

\* C7 as stated: the text that is split and classified holds no run of
\* three or more line feeds, whatever the number of blank-line runs of the
\* content.
C7_EveryRunCollapsed == Formatted => ~HasTripleNewline(normalized)

\* the blank lines of an output: the lengths of its runs of blank lines, in
\* order, and whether it starts and ends with one
BlankLines(ls) ==
    LET blank(i) == ls[i].text = EmptyStr
        runs[i \in 0..Len(ls)] ==
            IF i = 0 THEN <<>>
            ELSE IF ~blank(i) THEN runs[i - 1]
            ELSE IF i > 1 /\ blank(i - 1)
                 THEN [runs[i - 1] EXCEPT ![Len(runs[i - 1])] = @ + 1]
                 ELSE Append(runs[i - 1], 1)
    IN [runs |-> runs[Len(ls)],
        leading |-> ls # <<>> /\ blank(1),
        trailing |-> ls # <<>> /\ blank(Len(ls))]

\* a line that begins with three backticks
BeginsWithFence(l) == StartsWith(l, <<Backtick, Backtick, Backtick>>)

\* a line of white space only, and not empty
IsWhitespaceLine(l) == l # EmptyStr /\ \A i \in 1..Len(l) : IsWhitespace(l[i])

NoFenceNoWhitespaceLine(c) ==
    \A i \in 1..Len(c) : ~BeginsWithFence(Trim(c[i])) /\ ~IsWhitespaceLine(c[i])

FencesBefore(ls, i) == Cardinality({k \in 1..(i - 1) : BeginsWithFence(ls[k])})

\* what C10 says line i of ls becomes, when it is no fence line
ExpectedLine(ls, i) ==
    IF StartsWith(ls[i], <<"#", "#">>) THEN StyledLine("Heading", ls[i])
    ELSE IF StartsWith(Trim(ls[i]), <<"*", " ">>) THEN StyledLine("Bullet", ls[i])
    ELSE IF FencesBefore(ls, i) % 2 = 1
         THEN StyledLine("CodeLine", <<" ">> \o ls[i] \o <<" ">>)
         ELSE StyledLine("Plain", ls[i])

\* an output line is the expected one; C10 leaves a bullet's text open
SameLine(o, e) == o.style = e.style /\ (e.style # "Bullet" => o.text = e.text)

\* C10: of the lines that are split and classified, those beginning with
\* three backticks give no output line; every other line gives one output
\* line, in input order: a heading or a bullet as such, any other line a
\* CodeLine padded with one space on each side when an odd number of fence
\* lines precede it, and a verbatim Plain line otherwise.
C10_FenceToggle ==
    LET ls == Lines(normalized)
        kept == {i \in 1..Len(ls) : ~BeginsWithFence(ls[i])}
        expected == LinesAt([i \in 1..Len(ls) |-> ExpectedLine(ls, i)], kept)
    IN Formatted =>
          /\ Len(out) = Len(expected)
          /\ \A i \in 1..Len(out) : SameLine(out[i], expected[i])

\* a content with a plain line before a fence, one inside it and one after
\* it has been formatted
C10_Witness ==
    /\ Formatted
    /\ Len(out) >= 3
    /\ \E i \in 1..(Len(out) - 2) :
          /\ out[i].style = "Plain"
          /\ out[i + 1].style = "CodeLine"
          /\ out[i + 2].style = "Plain"

----------------------------------------------------------------------------
(* What the claims say of the keys and of the footer.                      *)

\* main has left the loop by its break
AfterBreak == pc \in {"leave_alt", "disable_raw", "done"}

\* main is in the loop
InLoop == pc \in {"draw", "poll", "read", "dispatch"}

\* C11: a press of Escape or of 'q', read at any index, ends the loop: no
\* draw, poll or index change follows it, and when LeaveAlternateScreen and
\* disable_raw_mode succeed the terminal is out of the alternate screen and
\* of raw mode when main returns.
C11_QuitLeavesLoop ==
    /\ [][(pc = "dispatch" /\ (IsPress(ev, "Esc") \/ IsPress(ev, "q")))
             => (pc' = "leave_alt" /\ slide' = slide /\ frame' = frame)]_vars
    /\ [][AfterBreak => (~InLoop' /\ slide' = slide /\ frame' = frame)]_vars
    /\ [](pc = "done" => (~altScreen /\ ~rawMode))

\* main has returned Ok after a press of 'q' read at the last of two slides
C11_Witness ==
    /\ pc = "done"
    /\ IsPress(ev, "q")
    /\ slide = 2
    /\ ~altScreen /\ ~rawMode

\* a press of one of the four keys main acts on
IsBoundPress(e) ==
    \E code \in {"Esc", "q", "Left", "Right"} :
        e.type = "Key" /\ e.kind = "Press" /\ e.code = code

\* C12: an event that is no press of Escape, 'q', left arrow or right arrow
\* (a release or a repeat of these keys, another key, an event that is no
\* key event) leaves the index as it is and the loop goes on.
C12_OtherEventsIgnored ==
    [][(pc = "dispatch" /\ ~IsBoundPress(ev)) => (slide' = slide /\ pc' = "draw")]_vars

\* the release of the right arrow was handled with the first of two slides
\* on the screen, and the index is still that slide's
C12_Witness ==
    /\ pc = "draw"
    /\ Len(p.slides) = 2
    /\ ev.type = "Key" /\ ev.kind = "Release" /\ ev.code = "Right"
    /\ frame # NoFrame
    /\ frame.counter = <<2, 3>>
    /\ slide = 1

----------------------------------------------------------------------------
(* What the claims say of the metadata and of the lines kept.              *)

\* where the first match of `from` starts in s, 0 when there is none
FirstMatch(s, from) ==
    LET at(i) == SubSeq(s, i, i + Len(from) - 1) = from
        I == {i \in 1..(Len(s) - Len(from) + 1) : at(i)}
    IN IF I = {} THEN 0 ELSE CHOOSE i \in I : \A j \in I : i <= j

\* s with the first match of `from` removed
WithoutFirst(s, from) ==
    LET i == FirstMatch(s, from)
    IN IF i = 0 THEN s
       ELSE SubSeq(s, 1, i - 1) \o SubSeq(s, i + Len(from), Len(s))

\* what C13 says the metadata line at position k (from 1) gives its slot
FirstPrefixRemoved(ls, k) ==
    IF k <= Len(ls) /\ StartsWith(ls[k], <<"%">>)
    THEN WithoutFirst(ls[k], <<"%", " ">>)
    ELSE EmptyStr

\* C13 as stated: title, author and date are their metadata line with the
\* first "% " removed and every later "% " kept.
C13_FirstPrefixOnly ==
    LET ls == DocumentLines
    IN Parsed =>
          /\ p.title = FirstPrefixRemoved(ls, 1)
          /\ p.author = FirstPrefixRemoved(ls, 2)
          /\ p.date = FirstPrefixRemoved(ls, 3)

\* C14 as stated: when line 0 does not start with "%", author and date
\* stay empty and every line starting with "%" is kept as slide content.
C14_NoMetadataWithoutTitle ==
    LET ls == DocumentLines
    IN (Parsed /\ ls # <<>> /\ ~StartsWith(ls[1], <<"%">>)) =>
          /\ p.author = EmptyStr
          /\ p.date = EmptyStr
          /\ PercentLines(AllContent(p.slides)) = PercentLines(ls)

\* C14 as amended: when line 0 does not start with "%", the title stays
\* empty and no line at position 3 or later is taken as metadata: every
\* such line starting with "%" is kept as slide content; line 1 and line 2
\* still give author and date when they start with "%", and are then not
\* kept as content.
C14_TitleEmptyRestPositional ==
    LET ls == DocumentLines
    IN (Parsed /\ ls # <<>> /\ ~StartsWith(ls[1], <<"%">>)) =>
          /\ p.title = EmptyStr
          /\ p.author = SlotOf(ls, 2)
          /\ p.date = SlotOf(ls, 3)
          /\ PercentLines(AllContent(p.slides)) =
                 PercentLines(LinesAt(ls, (1..Len(ls)) \ MetaPositions(ls)))

\* a document whose line 0 is no metadata line, whose line 2 is one and
\* which has a line starting with "%" at position 3 or later has been read
C14_Witness ==
    LET ls == DocumentLines
    IN /\ Parsed
       /\ Len(ls) >= 4
       /\ ~StartsWith(ls[1], <<"%">>)
       /\ ~StartsWith(ls[2], <<"%">>)
       /\ p.date # EmptyStr
       /\ \E i \in 4..Len(ls) : StartsWith(ls[i], <<"%">>)

\* C15: every line that is neither consumed as metadata nor a header line
\* is in one slide's content, once: the contents of the slides, one after
\* the other, are exactly those lines in source order.
C15_NoLineDropped ==
    LET ls == DocumentLines
    IN Parsed =>
          AllContent(p.slides) =
              LinesAt(ls, (1..Len(ls)) \ (MetaPositions(ls) \cup HeaderPositions(ls)))

\* a document with a line before its first header line, a metadata line
\* and lines in two slides has been read
C15_Witness ==
    LET ls == DocumentLines
    IN /\ Parsed
       /\ Len(p.slides) = 2
       /\ MetaPositions(ls) # {}
       /\ 1 \notin MetaPositions(ls) \cup HeaderPositions(ls)
       /\ p.slides[1].content # <<>>
       /\ p.slides[2].content # <<>>

----------------------------------------------------------------------------
(* What the claims say of the footer's counter and of the arrows.          *)

\* C16: the counter a draw puts on the screen shows current = index + 1
\* and total = slide_count + 1, so that 1 <= current <= total and
\* total >= 2.
C16_FooterCounter ==
    /\ pc = "poll" => frame.counter = <<slide + 1, Len(p.slides) + 1>>
    /\ frame # NoFrame =>
          /\ frame.counter[2] = Len(p.slides) + 1
          /\ 1 <= frame.counter[1]
          /\ frame.counter[1] <= frame.counter[2]
          /\ frame.counter[2] >= 2

\* the second of two slides has just been drawn
C16_Witness ==
    /\ pc = "poll"
    /\ slide = 2
    /\ frame # NoFrame
    /\ frame.view = "slide"
    /\ frame.counter = <<3, 3>>

\* the larger and the smaller of two numbers
Max(a, b) == IF a >= b THEN a ELSE b
Min(a, b) == IF a <= b THEN a ELSE b

\* C17: a left-arrow press sets the index to max(0, index - 1), a
\* right-arrow press sets it to min(slide_count, index + 1), and no event
\* changes the index by more than one.
C17_ArrowSteps ==
    /\ [][(pc = "dispatch" /\ IsPress(ev, "Left")) => slide' = Max(0, slide - 1)]_vars
    /\ [][(pc = "dispatch" /\ IsPress(ev, "Right"))
             => slide' = Min(Len(p.slides), slide + 1)]_vars
    /\ [][pc = "dispatch" => (slide' - slide) \in {-1, 0, 1}]_vars

\* a left-arrow press was handled with the second of two slides on the
\* screen, and the index is the first slide's
C17_Witness ==
    /\ pc = "draw"
    /\ IsPress(ev, "Left")
    /\ frame # NoFrame
    /\ frame.counter = <<3, 3>>
    /\ slide = 1

----------------------------------------------------------------------------
(* What the claims say of the loop as a whole.                             *)

\* C18 as stated, for a session without terminal errors: a draw is followed
\* by a poll; a poll that times out goes back to the draw with the index
\* unchanged; an event read is handled and the loop draws again or breaks;
\* main ends only after a press of a quit key; and as long as main has not
\* left the loop by a quit key the draw step comes again.
C18_DrawPollCycle ==
    /\ [][pc = "draw" => (pc' = "poll" /\ frame' = View(slide, p))]_vars
    /\ [][(pc = "poll" /\ pc' = "draw") => slide' = slide]_vars
    /\ [][pc = "dispatch" => pc' \in {"draw", "leave_alt"}]_vars
    /\ []((readable /\ Terminated) => IsQuit(ev))
    /\ [](InLoop => <>(pc = "draw" \/ AfterBreak))

\* C19 as stated: the draw step at index 0 completes for every
\* Presentation that Presentation::read can produce, one with an empty
\* title included: the title view never aborts main.
C19_TitleViewDraws ==
    [][(pc = "draw" /\ slide = 0) => pc' # "panicked"]_vars

====
